---- MODULE Spec2Model ----
(***************************************************************************)
(* DocuMind frontend: the streaming chat client.                           *)
(*                                                                         *)
(*   chatService.askQuestionStreaming  (services/chatService.ts)           *)
(*   useChat                           (hooks/useChat.ts, streaming hook   *)
(*                                      with lastSuggestedTimestamp)       *)
(*   ChatInterface                     (components/chat/ChatInterface.tsx) *)
(*                                                                         *)
(* Text is a sequence of one-character strings.  An optional value         *)
(* (undefined | v) is the set {} or {v}.  The JSON payload of a wire line  *)
(* is written in a short alphabet: "{" tag text "}" with tag "c" (content),*)
(* "e" (error), "d" (done, text = the suggested_timestamp digit, if any)   *)
(* or "u" (a type the client does not know); everything else is text that  *)
(* JSON.parse rejects.                                                     *)
(***************************************************************************)
EXTENDS Integers, Sequences, FiniteSets, TLC

VARIABLES
    isLoading,               \* useChat state
    chatHistory,             \* useChat state: NullHistory or a history record
    error,                   \* useChat state: {} (null) or {message}
    streamingMessage,        \* useChat state: the live buffer
    lastSuggestedTimestamp,  \* useChat state: {} (undefined) or {seconds}
    turn,                    \* the askQuestion calls in flight, by slot
    turnsStarted,            \* askQuestion calls made so far (Date.now() of the temp id)
    server,                  \* the server's canonical transcript of the file
    loadPc,                  \* ChatInterface's loadHistory() of the mount effect
    framesSent,              \* lines the server has written, over all responses
    player,                  \* useMediaPlayer state of the MediaPlayer component
    ctx,                     \* MediaPlayerProvider: the shared reference and its state
    dom,                     \* the playback element MediaPlayer renders
    timestamps,              \* HomePage state: the TimestampEntry list handed to MediaPlayer
    calledUnbound,           \* history: a guarded handler was called with no element bound
    question,                \* ChatInterface state: the text of the input
    submitIgnored,           \* history: handleSubmit returned at its guard
    shownFileId,             \* the fileId HomePage hands to ChatInterface and useChat
    loadPcOther,             \* loadHistory() of the effect run for the other file
    selectedFileId,          \* HomePage state: {} (null) or {file id}
    currentFile,             \* HomePage state: {} (null) or {file details}
    isLoadingFile,           \* HomePage state
    loads,                   \* the loadFileDetails calls, by slot
    polls                    \* the pollFileStatus invocations, by slot

chatVars == <<isLoading, chatHistory, error, streamingMessage, lastSuggestedTimestamp,
              turn, turnsStarted, server, loadPc, framesSent>>

mediaVars == <<player, ctx, dom, timestamps, calledUnbound>>

uiVars == <<question, submitIgnored, shownFileId, loadPcOther>>

pageVars == <<selectedFileId, currentFile, isLoadingFile, loads, polls>>

vars == <<chatVars, mediaVars, uiVars, pageVars>>

hookState == <<isLoading, chatHistory, error, streamingMessage, lastSuggestedTimestamp>>

----------------------------------------------------------------------------
(* Bounds *)

MaxTurns == 2
MaxSlots == 2
MaxFrames == 3
MaxTotalFrames == 4

Slots == 1..MaxSlots

fileId == "file-1"
Questions == {<<"q">>}

----------------------------------------------------------------------------
(* Text helpers *)

NL == "\n"
DataPrefix == <<"d", "a", "t", "a", ":", " ">>
DigitChars == <<"0", "1", "2", "3", "4", "5", "6", "7", "8", "9">>

startsWith(s, p) == Len(s) >= Len(p) /\ SubSeq(s, 1, Len(p)) = p

slice(s, n) == SubSeq(s, n + 1, Len(s))

RECURSIVE trimStart(_)
trimStart(s) == IF s # <<>> /\ s[1] = " " THEN trimStart(Tail(s)) ELSE s

RECURSIVE trimEnd(_)
trimEnd(s) ==
    IF s # <<>> /\ s[Len(s)] = " " THEN trimEnd(SubSeq(s, 1, Len(s) - 1)) ELSE s

trim(s) == trimEnd(trimStart(s))

\* s.split('\n'): the fragments between newlines, the last one included.
RECURSIVE split(_, _)
split(s, cur) ==
    IF s = <<>> THEN <<cur>>
    ELSE IF s[1] = NL THEN <<cur>> \o split(Tail(s), <<>>)
    ELSE split(Tail(s), Append(cur, s[1]))

IsDigit(c) == \E i \in 1..Len(DigitChars) : DigitChars[i] = c
DigitValue(c) == (CHOOSE i \in 1..Len(DigitChars) : DigitChars[i] = c) - 1

\* JSON.parse of a payload: [ok |-> FALSE] when it throws.
ParseFailure == [ok |-> FALSE, type |-> "", text |-> <<>>, ts |-> {}]

JSONParse(jsonStr) ==
    LET t == trim(jsonStr)
        n == Len(t)
        body == SubSeq(t, 3, n - 1)
    IN  IF n < 3 \/ t[1] # "{" \/ t[n] # "}" THEN ParseFailure
        ELSE IF \E i \in 1..Len(body) : body[i] \in {"{", "}"} THEN ParseFailure
        ELSE IF t[2] = "c" THEN [ok |-> TRUE, type |-> "content", text |-> body, ts |-> {}]
        ELSE IF t[2] = "e" THEN [ok |-> TRUE, type |-> "error", text |-> body, ts |-> {}]
        ELSE IF t[2] = "u" THEN [ok |-> TRUE, type |-> "unknown", text |-> <<>>, ts |-> {}]
        ELSE IF t[2] = "d" /\ body = <<>>
            THEN [ok |-> TRUE, type |-> "done", text |-> <<>>, ts |-> {}]
        ELSE IF t[2] = "d" /\ Len(body) = 1 /\ IsDigit(body[1])
            THEN [ok |-> TRUE, type |-> "done", text |-> <<>>, ts |-> {DigitValue(body[1])}]
        ELSE ParseFailure

----------------------------------------------------------------------------
(* The wire: what the server writes into the response body *)

Ev(type, text, ts) == [type |-> type, text |-> text, ts |-> ts]

\* Frames of the protocol, `data: <json>\n\n`.
ContentFrames == {Ev("content", <<"a">>, {}), Ev("content", <<"b">>, {})}
DoneFrames == {Ev("done", <<>>, {}), Ev("done", <<>>, {5})}
ErrorFrames == {Ev("error", <<"x">>, {})}
Frames == ContentFrames \cup DoneFrames \cup ErrorFrames

\* Newline-terminated lines the client has to ignore.
IgnorableLines ==
    { Ev("malformed", <<>>, {}),   \* data: {ca        (JSON.parse throws)
      Ev("unknown", <<>>, {}),     \* data: {u}        (a type of a later protocol)
      Ev("empty", <<>>, {}),       \* data: <blank>    (empty payload)
      Ev("noprefix", <<>>, {}) }   \* :                (no data prefix)

IsIgnorable(ev) == ev \in IgnorableLines

TsDigits(ts) == IF ts = {} THEN <<>> ELSE <<DigitChars[(CHOOSE n \in ts : TRUE) + 1]>>

\* The line of a frame, before the newlines that end it.
FrameLine(type, text, ts) ==
    CASE type = "content" -> DataPrefix \o <<"{", "c">> \o text \o <<"}">>
      [] type = "error" -> DataPrefix \o <<"{", "e">> \o text \o <<"}">>
      [] type = "done" -> DataPrefix \o <<"{", "d">> \o TsDigits(ts) \o <<"}">>

\* A frame whose line the server did not end before it closed the body.
Unterminated(ev) ==
    [type |-> "unterminated", text |-> ev.text, ts |-> ev.ts, frame |-> ev.type]

Encode(ev) ==
    CASE ev.type \in {"content", "error", "done"} ->
             FrameLine(ev.type, ev.text, ev.ts) \o <<NL, NL>>
      [] ev.type = "unterminated" -> FrameLine(ev.frame, ev.text, ev.ts)
      [] ev.type = "malformed" -> DataPrefix \o <<"{", "c", "a", NL>>
      [] ev.type = "unknown" -> DataPrefix \o <<"{", "u", "}", NL>>
      [] ev.type = "empty" -> DataPrefix \o <<" ", NL>>
      [] ev.type = "noprefix" -> <<":", NL>>

RECURSIVE EncodeAll(_)
EncodeAll(evs) == IF evs = <<>> THEN <<>> ELSE Encode(evs[1]) \o EncodeAll(Tail(evs))

----------------------------------------------------------------------------
(* One call of askQuestion: its locals and those of askQuestionStreaming *)

FreeTurn ==
    [ pc |-> "free",              \* free | awaitFetch | reading | awaitHistory
      question |-> <<>>,
      reqChatId |-> {},           \* chat_id of the request body ({}: omitted)
      net |-> <<>>,               \* body text written by the server, not yet read
      buffer |-> <<>>,            \* askQuestionStreaming: buffer
      suggestedTimestamp |-> {},  \* askQuestionStreaming: suggestedTimestamp
      fullAnswer |-> <<>>,        \* askQuestion: fullAnswer
      suggestedTs |-> {},         \* askQuestion: suggestedTs
      sent |-> <<>>,              \* history: the lines the server has written
      calls |-> <<>>,             \* history: the onChunk / onComplete calls made
      logged |-> 0,               \* history: console.error calls of the service
      answerStored |-> FALSE ]    \* server: the answer is in the transcript

Call(fn, text, ts) == [fn |-> fn, text |-> text, ts |-> ts]

\* The callbacks useChat hands to the service.  r is the running state of a
\* read: the turn's locals (r.t) and the hook state the callbacks set.
\* A hook that shows the last chunk instead of the accumulated answer.
onChunkLastOnly(r, chunk) ==
    [r EXCEPT !.t.fullAnswer = @ \o chunk, !.streamingMessage = chunk]

onChunk(r, chunk) ==
    LET fullAnswer == r.t.fullAnswer \o chunk
    IN  [r EXCEPT !.t.fullAnswer = fullAnswer, !.streamingMessage = fullAnswer]

onComplete(r, timestamp) ==
    [r EXCEPT !.t.suggestedTs = timestamp, !.lastSuggestedTimestamp = timestamp]

\* A catch block that rethrows what the error branch threw.
catchAndRethrow(r) == [r EXCEPT !.t.logged = @ + 1, !.t.pc = "thrown"]

\* catch (parseError) { console.error(...) }: the line is logged and skipped.
catchParseError(r) == [r EXCEPT !.t.logged = @ + 1]

\* A branch that hands every payload it does not know to onChunk.
dispatchUnknownAsContent(r, data) ==
    IF data.type \in {"content", "unknown"} THEN
        onChunk([r EXCEPT !.t.calls = Append(@, Call("onChunk", data.text, {}))], data.text)
    ELSE r

\* The branch on data.type of a parsed payload.
dispatch(r, data) ==
    IF data.type = "content" THEN
        onChunk([r EXCEPT !.t.calls = Append(@, Call("onChunk", data.text, {}))], data.text)
    ELSE IF data.type = "error" THEN
        \* throw new Error(data.error || ...) inside the try: caught right below
        catchParseError(r)
    ELSE IF data.type = "done" THEN
        LET ts == IF data.ts # {} THEN data.ts ELSE r.t.suggestedTimestamp
            r1 == [r EXCEPT !.t.suggestedTimestamp = ts,
                            !.t.calls = Append(@, Call("onComplete", <<>>, ts))]
        IN  onComplete(r1, ts)
    ELSE r

processLine(r, line) ==
    IF startsWith(line, DataPrefix) THEN
        LET jsonStr == slice(line, 6)
        IN  IF trim(jsonStr) # <<>> THEN
                LET data == JSONParse(jsonStr)
                IN  IF data.ok THEN dispatch(r, data) ELSE catchParseError(r)
            ELSE r
    ELSE r

RECURSIVE processLines(_, _)
processLines(r, lines) ==
    IF lines = <<>> THEN r ELSE processLines(processLine(r, lines[1]), Tail(lines))

\* A loop that forgets the unfinished line between reads.
popLastForgotten(lines) == <<>>

\* buffer = lines.pop() || ''
popLast(lines) == lines[Len(lines)]

\* The body of the read loop for one chunk `value`.
readChunk(r, value) ==
    LET lines == split(r.t.buffer \o value, <<>>)
        r1 == [r EXCEPT !.t.buffer = popLast(lines)]
    IN  processLines(r1, SubSeq(lines, 1, Len(lines) - 1))

Running(t) ==
    [t |-> turn[t], streamingMessage |-> streamingMessage,
     lastSuggestedTimestamp |-> lastSuggestedTimestamp]

----------------------------------------------------------------------------
(* Conversation data *)

NullHistory == [isNull |-> TRUE]

Message(id, role, content, ts) ==
    [message_id |-> id, role |-> role, content |-> content, suggested_timestamp |-> ts]

TempId(n) == [temp |-> TRUE, n |-> n]      \* `temp-${Date.now()}`
ServerId(n) == [temp |-> FALSE, n |-> n]   \* an id the server gave

\* What GET /chat/{fileId}/history answers with.
ServerHistory ==
    [ chat_id |-> server.chat_id, file_id |-> fileId, messages |-> server.messages,
      total_messages |-> Len(server.messages), total_tokens |-> 0 ]

AssignedChatId == "chat-1"

\* The transcript when the page opens: no chat yet, or an earlier exchange.
InitialTranscripts ==
    { [chat_id |-> "", messages |-> <<>>],
      [chat_id |-> AssignedChatId,
       messages |-> << Message(ServerId(1), "user", <<"p">>, {}),
                       Message(ServerId(2), "assistant", <<"r">>, {}) >>] }

HttpStatuses == {500}
\* A rejection that does not name the status.
HttpErrorNoStatus(status) == <<"HTTP error!">>

\* new Error(`HTTP error! status: ${response.status}`).message
HttpError(status) == <<"HTTP error! status: ", ToString(status)>>
NetworkError == <<"Failed to fetch">>
ReadError == <<"network error">>
HistoryError == <<"Network Error">>

FreeSlots == {t \in Slots : turn[t].pc = "free"}
InFlight == {t \in Slots : turn[t].pc # "free"}

----------------------------------------------------------------------------
(* useChat.askQuestion, up to its first await *)

\* An optimistic append that starts the conversation record afresh.
optimisticAppendFresh(prev, tempUserMessage) ==
    [ chat_id |-> "",
      file_id |-> fileId,
      messages |-> (IF prev = NullHistory THEN <<>> ELSE prev.messages)
                       \o <<tempUserMessage>>,
      total_messages |-> (IF prev = NullHistory THEN 0 ELSE prev.total_messages) + 1,
      total_tokens |-> 0 ]

\* An optimistic append that puts the new message in front.
optimisticAppendFront(prev, tempUserMessage) ==
    [ chat_id |-> IF prev = NullHistory THEN "" ELSE prev.chat_id,
      file_id |-> fileId,
      messages |-> <<tempUserMessage>>
                       \o (IF prev = NullHistory THEN <<>> ELSE prev.messages),
      total_messages |-> (IF prev = NullHistory THEN 0 ELSE prev.total_messages) + 1,
      total_tokens |-> IF prev = NullHistory THEN 0 ELSE prev.total_tokens ]

\* setChatHistory((prev) => ...) of the optimistic append.
optimisticAppend(prev, tempUserMessage) ==
    [ chat_id |-> IF prev = NullHistory THEN "" ELSE prev.chat_id,
      file_id |-> fileId,
      messages |-> (IF prev = NullHistory THEN <<>> ELSE prev.messages)
                       \o <<tempUserMessage>>,
      total_messages |-> (IF prev = NullHistory THEN 0 ELSE prev.total_messages) + 1,
      total_tokens |-> IF prev = NullHistory THEN 0 ELSE prev.total_tokens ]

\* chat_id: chatHistory?.chat_id of the request body.
requestChatId(h) == IF h = NullHistory THEN {} ELSE {h.chat_id}

askQuestion(t, currentQuestion) ==
    /\ turn[t].pc = "free"
    /\ turnsStarted < MaxTurns
    /\ isLoading' = TRUE
    /\ error' = {}
    /\ streamingMessage' = <<>>
    /\ lastSuggestedTimestamp' = {}
    /\ chatHistory' = optimisticAppend(chatHistory,
                          Message(TempId(turnsStarted + 1), "user", currentQuestion, {}))
    /\ turn' = [turn EXCEPT ![t] = [FreeTurn EXCEPT !.pc = "awaitFetch",
                                                     !.question = currentQuestion,
                                                     !.reqChatId = requestChatId(chatHistory)]]
    /\ turnsStarted' = turnsStarted + 1
    /\ UNCHANGED <<server, loadPc, framesSent, mediaVars, submitIgnored, shownFileId, loadPcOther, pageVars>>

\* onChange of the input: setQuestion(e.target.value)
setQuestion(value) ==
    /\ question # value
    /\ question' = value
    /\ UNCHANGED <<chatVars, mediaVars, submitIgnored, shownFileId, loadPcOther, pageVars>>

\* A guard that lets a typed question through while a turn is in flight.
canSubmitWhileLoading(currentQuestion) == trim(currentQuestion) # <<>>

\* ChatInterface.handleSubmit: if (!question.trim() || isLoading) return;
canSubmit(currentQuestion) == trim(currentQuestion) # <<>> /\ ~isLoading

handleSubmit ==
    IF canSubmit(question) THEN
        /\ question' = <<>>
        /\ \E t \in FreeSlots :
              /\ \A u \in FreeSlots : t <= u
              /\ askQuestion(t, question)
    ELSE
        /\ submitIgnored' = TRUE
        /\ UNCHANGED <<chatVars, mediaVars, question, shownFileId, loadPcOther, pageVars>>

\* The hook called by a consumer that does not look at isLoading.
AskQuestionDirect ==
    \E asked \in Questions, t \in FreeSlots :
        /\ \A u \in FreeSlots : t <= u
        /\ askQuestion(t, asked)
        /\ UNCHANGED question

----------------------------------------------------------------------------
(* The ways a turn ends *)

\* A catch block without setStreamingMessage('').
catchWithoutClear(t, message) ==
    /\ error' = {message}
    /\ isLoading' = FALSE
    /\ turn' = [turn EXCEPT ![t] = FreeTurn]
    /\ UNCHANGED <<chatHistory, streamingMessage, lastSuggestedTimestamp, turnsStarted,
                   server, loadPc, framesSent, mediaVars, uiVars, pageVars>>

\* A catch block with no finally behind it.
catchWithoutFinally(t, message) ==
    /\ error' = {message}
    /\ streamingMessage' = <<>>
    /\ turn' = [turn EXCEPT ![t] = FreeTurn]
    /\ UNCHANGED <<isLoading, chatHistory, lastSuggestedTimestamp, turnsStarted,
                   server, loadPc, framesSent, mediaVars, uiVars, pageVars>>

\* catch (err) { setError(...); setStreamingMessage('') } finally { setIsLoading(false) }
catchAndFinally(t, message) ==
    /\ error' = {message}
    /\ streamingMessage' = <<>>
    /\ isLoading' = FALSE
    /\ turn' = [turn EXCEPT ![t] = FreeTurn]
    /\ UNCHANGED <<chatHistory, lastSuggestedTimestamp, turnsStarted, server, loadPc, framesSent, mediaVars, uiVars, pageVars>>

\* fetch() rejects: no connection.
FetchReject(t) ==
    /\ turn[t].pc = "awaitFetch"
    /\ catchAndFinally(t, NetworkError)

\* fetch() resolves with a non-2xx status: if (!response.ok) throw ...
FetchNotOk(t) ==
    /\ turn[t].pc = "awaitFetch"
    /\ \E status \in HttpStatuses : catchAndFinally(t, HttpError(status))

\* The server takes the request: it stores the question in the transcript
\* (creating the chat on the first exchange) before it answers.
serverAccept(srv, asked) ==
    [ chat_id |-> AssignedChatId,
      messages |-> Append(srv.messages,
                      Message(ServerId(Len(srv.messages) + 1), "user", asked, {})) ]

\* fetch() resolves with a 2xx status: the reader is taken, the loop starts.
FetchOk(t) ==
    /\ turn[t].pc = "awaitFetch"
    /\ turn' = [turn EXCEPT ![t].pc = "reading"]
    /\ server' = serverAccept(server, turn[t].question)
    /\ UNCHANGED <<hookState, turnsStarted, loadPc, framesSent, mediaVars, uiVars, pageVars>>

----------------------------------------------------------------------------
(* askQuestionStreaming: the read loop *)

\* The server writes one more line or frame into the response body.
\* The server closed the body after a line it did not end.
BodyEnded(evs) == evs # <<>> /\ evs[Len(evs)].type = "unterminated"

Send(t, ev) ==
    /\ turn[t].pc = "reading"
    /\ turn[t].net = <<>>
    /\ ~BodyEnded(turn[t].sent)
    /\ Len(turn[t].sent) < MaxFrames
    /\ framesSent < MaxTotalFrames
    /\ turn' = [turn EXCEPT ![t].net = Encode(ev), ![t].sent = Append(@, ev)]
    /\ framesSent' = framesSent + 1
    /\ UNCHANGED <<hookState, turnsStarted, server, loadPc, mediaVars, uiVars, pageVars>>

IsTerminal(ev) == ev.type \in {"done", "error"}
HasTerminal(evs) == \E i \in 1..Len(evs) : IsTerminal(evs[i])

\* A server that keeps to the protocol: content frames, then one terminal frame.
ServerSend(t) ==
    /\ ~HasTerminal(turn[t].sent)
    /\ \E ev \in Frames : Send(t, ev)

\* A server whose done frame carries suggested_timestamp 0.
HintZeroFrames == ContentFrames \cup {Ev("done", <<>>, {0})}

ServerSendHintZero(t) ==
    /\ ~HasTerminal(turn[t].sent)
    /\ \E ev \in HintZeroFrames : Send(t, ev)

\* A body of any lines in any order.
ServerSendAny(t) == \E ev \in Frames \cup IgnorableLines : Send(t, ev)

\* reader.read() resolves with the next k characters of the body.
Read(t, k) ==
    /\ turn[t].pc = "reading"
    /\ k \in 1..Len(turn[t].net)
    /\ LET value == SubSeq(turn[t].net, 1, k)
           r0 == [Running(t) EXCEPT !.t.net = slice(turn[t].net, k)]
           r == readChunk(r0, value)
       IN  /\ turn' = [turn EXCEPT ![t] = r.t]
           /\ streamingMessage' = r.streamingMessage
           /\ lastSuggestedTimestamp' = r.lastSuggestedTimestamp
    /\ UNCHANGED <<isLoading, chatHistory, error, turnsStarted, server, loadPc, framesSent, mediaVars, uiVars, pageVars>>

\* Where a read may end: inside the payload of the frame in flight, or at
\* the end of what is in flight.
MidPayload == Len(DataPrefix) + 2
SplitPoints(n) == {MidPayload, n}

ReaderRead(t) == \E k \in SplitPoints(Len(turn[t].net)) : Read(t, k)

\* Every read takes all that is in flight.
ReaderReadWhole(t) == Read(t, Len(turn[t].net))

\* Any split at all.
ReaderReadAny(t) == \E k \in 1..Len(turn[t].net) : Read(t, k)

\* The last thing the server writes is a frame without its newlines.
ServerSendUnterminated(t) == \E ev \in Frames : Send(t, Unterminated(ev))

\* reader.read() rejects: the connection broke.  finally releases the lock,
\* the rejection reaches askQuestion's catch.
ReaderFail(t) ==
    /\ turn[t].pc = "reading"
    /\ catchAndFinally(t, ReadError)

\* A loop that parses what is left in the buffer when the stream ends.
ReaderDoneFlushing(t) ==
    /\ turn[t].pc = "reading"
    /\ turn[t].net = <<>>
    /\ LET r == processLine(Running(t), turn[t].buffer)
           result == r.t.suggestedTimestamp
       IN  /\ turn' = [turn EXCEPT ![t] = [r.t EXCEPT !.pc = "awaitHistory",
                                   !.suggestedTs = IF result # {} THEN result ELSE @]]
           /\ streamingMessage' = r.streamingMessage
           /\ lastSuggestedTimestamp' =
                  IF result # {} THEN result ELSE r.lastSuggestedTimestamp
    /\ UNCHANGED <<isLoading, chatHistory, error,
                   turnsStarted, server, loadPc, framesSent, mediaVars, uiVars, pageVars>>

\* reader.read() reports done: the service returns { suggested_timestamp },
\* askQuestion stores it and calls getHistory.
ReaderDone(t) ==
    /\ turn[t].pc = "reading"
    /\ turn[t].net = <<>>
    /\ LET result == turn[t].suggestedTimestamp
       IN  /\ turn' = [turn EXCEPT ![t].pc = "awaitHistory",
                                   ![t].suggestedTs = IF result # {} THEN result ELSE @]
           /\ lastSuggestedTimestamp' =
                  IF result # {} THEN result ELSE lastSuggestedTimestamp
    /\ UNCHANGED <<isLoading, chatHistory, error, streamingMessage,
                   turnsStarted, server, loadPc, framesSent, mediaVars, uiVars, pageVars>>

----------------------------------------------------------------------------
(* Reconciliation *)

\* A reconciliation that forgets the hint.
attachNothing(history, suggestedTs) == history

\* A reconciliation that puts the hint on the last message whoever wrote it.
attachToLastOfAnyRole(history, suggestedTs) ==
    LET n == Len(history.messages)
    IN  IF suggestedTs # {} /\ n > 0
        THEN [history EXCEPT !.messages[n].suggested_timestamp = suggestedTs]
        ELSE history

\* lines 73-78: the hint goes to the last message when it is the assistant's.
attachSuggestedTimestamp(history, suggestedTs) ==
    LET n == Len(history.messages)
    IN  IF suggestedTs # {} /\ n > 0 /\ history.messages[n].role = "assistant"
        THEN [history EXCEPT !.messages[n].suggested_timestamp = suggestedTs]
        ELSE history

\* A reconciliation that keeps the optimistic messages in front of the fetched ones.
reconcileAppend(prev, history) ==
    [history EXCEPT !.messages = prev.messages \o history.messages]

\* setChatHistory(history)
reconcile(prev, history) == history

HistoryOk(t) ==
    /\ turn[t].pc = "awaitHistory"
    /\ server.chat_id # ""
    /\ chatHistory' = reconcile(chatHistory,
                                attachSuggestedTimestamp(ServerHistory, turn[t].suggestedTs))
    /\ streamingMessage' = <<>>
    /\ isLoading' = FALSE
    /\ turn' = [turn EXCEPT ![t] = FreeTurn]
    /\ UNCHANGED <<error, lastSuggestedTimestamp, turnsStarted, server, loadPc, framesSent, mediaVars, uiVars, pageVars>>

HistoryFail(t) ==
    /\ turn[t].pc = "awaitHistory"
    /\ catchAndFinally(t, HistoryError)

----------------------------------------------------------------------------
(* useChat.loadHistory, called by ChatInterface's effect *)

LoadHistoryOk ==
    /\ loadPc = "pending"
    /\ server.chat_id # ""
    /\ chatHistory' = ServerHistory
    /\ loadPc' = "done"
    /\ UNCHANGED <<isLoading, error, streamingMessage, lastSuggestedTimestamp,
                   turn, turnsStarted, server, framesSent, mediaVars, uiVars, pageVars>>

\* A load whose failure reaches the user.
LoadHistoryFailSurfaced ==
    /\ loadPc = "pending"
    /\ loadPc' = "done"
    /\ error' = {HistoryError}
    /\ UNCHANGED <<isLoading, chatHistory, streamingMessage, lastSuggestedTimestamp,
                   turn, turnsStarted, server, framesSent, mediaVars, uiVars, pageVars>>

LoadHistoryFail ==
    /\ loadPc = "pending"
    /\ loadPc' = "done"
    /\ UNCHANGED <<hookState, turn, turnsStarted, server, framesSent, mediaVars, uiVars, pageVars>>

----------------------------------------------------------------------------
(* HomePage selects another file: the same ChatInterface gets a new fileId *)

otherFileId == "file-2"

\* What GET /chat/{fileId}/history answers with for the other file.
OtherServerHistory ==
    [ chat_id |-> "chat-2", file_id |-> otherFileId,
      messages |-> << Message(ServerId(1), "user", <<"o">>, {}),
                      Message(ServerId(2), "assistant", <<"s">>, {}) >>,
      total_messages |-> 2, total_tokens |-> 0 ]

\* ChatInterface is rendered with the other fileId: the component and its
\* useChat state stay, the effect on [fileId] calls loadHistory() again.
\* Calls already in flight keep the fileId and the setters they closed over.
ChangeFile ==
    /\ shownFileId = fileId
    /\ shownFileId' = otherFileId
    /\ loadPcOther' = "pending"
    /\ UNCHANGED <<chatVars, mediaVars, question, submitIgnored, pageVars>>

LoadHistoryOtherOk ==
    /\ loadPcOther = "pending"
    /\ chatHistory' = OtherServerHistory
    /\ loadPcOther' = "done"
    /\ UNCHANGED <<isLoading, error, streamingMessage, lastSuggestedTimestamp,
                   turn, turnsStarted, server, loadPc, framesSent, mediaVars,
                   question, submitIgnored, shownFileId, pageVars>>

LoadHistoryOtherFail ==
    /\ loadPcOther = "pending"
    /\ loadPcOther' = "done"
    /\ UNCHANGED <<chatVars, mediaVars, question, submitIgnored, shownFileId, pageVars>>

----------------------------------------------------------------------------
(* The server's transcript *)

RECURSIVE ContentOf(_)
ContentOf(evs) ==
    IF evs = <<>> THEN <<>>
    ELSE (IF evs[1].type = "content" THEN evs[1].text ELSE <<>>) \o ContentOf(Tail(evs))

HasDone(evs) == \E i \in 1..Len(evs) : evs[i].type = "done"

\* The hint a stored answer may carry: the record may or may not encode the
\* suggested_timestamp of the turn's done frame.
StoredHints(evs) == {{}} \cup {evs[i].ts : i \in {j \in 1..Len(evs) : evs[j].type = "done"}}

ServerPersistAnswer(t) ==
    /\ turn[t].pc \in {"reading", "awaitHistory"}
    /\ ~turn[t].answerStored
    /\ HasDone(turn[t].sent)
    /\ \E hint \in StoredHints(turn[t].sent) :
          server' = [server EXCEPT !.messages = Append(@,
                        Message(ServerId(Len(server.messages) + 1), "assistant",
                                ContentOf(turn[t].sent), hint))]
    /\ turn' = [turn EXCEPT ![t].answerStored = TRUE]
    /\ UNCHANGED <<hookState, turnsStarted, loadPc, framesSent, mediaVars, uiVars, pageVars>>

----------------------------------------------------------------------------
(* ChatInterface: what is rendered *)

\* HomePage renders ChatInterface inside MediaPlayerProvider, with isMediaFile
\* set for audio and video files: the case taken here.
isMediaFile == TRUE
mediaPlayerContext == TRUE

\* chatHistory?.messages.map(...)
renderedMessages == IF chatHistory = NullHistory THEN <<>> ELSE chatHistory.messages

\* A lookup that relays the captured value to every assistant message.
suggestedTimestampOfAnyAssistant(message, isLast) ==
    IF message.suggested_timestamp # {} THEN message.suggested_timestamp
    ELSE IF message.role # "user" THEN lastSuggestedTimestamp
    ELSE {}

\* message.suggested_timestamp ?? (isLast && !isUser ? lastSuggestedTimestamp : undefined)
suggestedTimestampOf(message, isLast) ==
    IF message.suggested_timestamp # {} THEN message.suggested_timestamp
    ELSE IF isLast /\ message.role # "user" THEN lastSuggestedTimestamp
    ELSE {}

\* A button rendered on `suggestedTimestamp &&`: 0 counts as no timestamp.
affordanceIfTruthy(message, isLast) ==
    IF message.role # "user" /\ isMediaFile /\ mediaPlayerContext
          /\ suggestedTimestampOf(message, isLast) # {0}
    THEN suggestedTimestampOf(message, isLast)
    ELSE {}

\* The "Play from" button of renderMessage: in the assistant branch only;
\* {} when no button is rendered, {seconds} otherwise.
affordance(message, isLast) ==
    IF message.role # "user" /\ isMediaFile /\ mediaPlayerContext
    THEN suggestedTimestampOf(message, isLast)
    ELSE {}

\* The bubble of the answer being streamed: text only, it has no button.
streamingBubbleShown == streamingMessage # <<>>
streamingBubbleAffordance == {}

----------------------------------------------------------------------------
(* The media player: useMediaPlayer (the hook of the MediaPlayer component), *)
(* MediaPlayerProvider (the reference shared with the chat) and the          *)
(* playback element MediaPlayer renders                                      *)

MaxElements == 2     \* playback elements created in a behaviour
MaxTime == 3         \* positions and entry times are 0..MaxTime seconds
MaxEntries == 2      \* entries of a timestamp list

NoElement == 0       \* mediaRef.current === null
Times == 0..MaxTime

TimestampEntry(time) == [time |-> time]

\* The lists HomePage may hand over: ascending by time, equal times allowed.
TimestampLists ==
    UNION { { ts \in [1..n -> {TimestampEntry(t) : t \in Times}] :
                \A i \in 1..(n - 1) : ts[i].time <= ts[i + 1].time } : n \in 0..MaxEntries }

\* Array.prototype.findIndex, given the (1-based) places where the predicate
\* holds: the 0-based index of the first of them, or -1.
findIndex(matches) ==
    IF matches = {} THEN -1 ELSE (CHOOSE i \in matches : \A j \in matches : i <= j) - 1

\* A scan that stops at the first entry the playhead has reached.
activeIndexFirstReached(ts, currentTime) ==
    findIndex({i \in 1..Len(ts) : currentTime >= ts[i].time})

\* timestamps.findIndex((ts, idx) => currentTime >= ts.time &&
\*                                   (!nextTs || currentTime < nextTs.time))
activeIndex(ts, currentTime) ==
    findIndex({i \in 1..Len(ts) :
                  currentTime >= ts[i].time
                      /\ (i = Len(ts) \/ currentTime < ts[i + 1].time)})

\* The effect on [currentTime, timestamps]: setActiveTimestampIndex(activeIndex)
activeTimestampEffect(p, ts) ==
    [p EXCEPT !.activeTimestampIndex = activeIndex(ts, p.currentTime)]

\* useMediaPlayer's state at the first render
HookInit ==
    [ mediaRef |-> NoElement, currentTime |-> 0, duration |-> 0,
      isPlaying |-> FALSE, activeTimestampIndex |-> -1 ]

\* MediaPlayerProvider's state at the first render
ProviderInit ==
    [ mediaRef |-> NoElement, currentTime |-> 0, duration |-> 0, isPlaying |-> FALSE ]

\* The element on the page: `live` is its identity (NoElement: none rendered);
\* elements created earlier are torn down.
NewElement(el) == [created |-> el, live |-> el, currentTime |-> 0, paused |-> TRUE]
NoDom(created) == [created |-> created, live |-> NoElement, currentTime |-> 0, paused |-> TRUE]

\* A handler that does not look at the reference.
boundAlways(ref) == TRUE

\* if (mediaRef.current)
bound(ref) == ref # NoElement

IsLive(d, ref) == ref # NoElement /\ ref = d.live

\* A seek that leaves the element paused.
seekWithoutPlay(d, ref, time) ==
    IF IsLive(d, ref) THEN [d EXCEPT !.currentTime = time] ELSE d

\* mediaRef.current.currentTime = time; mediaRef.current.play()
seekAndPlay(d, ref, time) ==
    IF IsLive(d, ref) THEN [d EXCEPT !.currentTime = time, !.paused = FALSE] ELSE d

\* A registration that keeps the element when handed null.
registerKeepOnNull(c, element) ==
    IF element = NoElement THEN c ELSE [c EXCEPT !.mediaRef = element]

\* registerMediaElement: mediaRef.current = element
registerMediaElement(c, element) == [c EXCEPT !.mediaRef = element]

\* MediaPlayer's register effect and its cleanup
registerEffect(c, ref) == IF bound(ref) THEN registerMediaElement(c, ref) ELSE c
cleanupEffect(c) == registerMediaElement(c, NoElement)

mounted == player.mediaRef # NoElement

\* MediaPlayer mounts: the element is created, the hook starts afresh, the
\* effects run.
Mount ==
    /\ ~mounted
    /\ dom.created < MaxElements
    /\ LET el == dom.created + 1
       IN  /\ dom' = NewElement(el)
           /\ player' = activeTimestampEffect([HookInit EXCEPT !.mediaRef = el], timestamps)
           /\ ctx' = registerEffect(ctx, el)
    /\ UNCHANGED <<timestamps, calledUnbound, chatVars, uiVars, pageVars>>

\* MediaPlayer unmounts: the element is torn down, the cleanup runs.
Unmount ==
    /\ mounted
    /\ dom' = NoDom(dom.created)
    /\ player' = [player EXCEPT !.mediaRef = NoElement]
    /\ ctx' = cleanupEffect(ctx)
    /\ UNCHANGED <<timestamps, calledUnbound, chatVars, uiVars, pageVars>>

\* The provider renders again: its value is a new object, so the register
\* effect is cleaned up and run again.
Rerender ==
    /\ mounted
    /\ ctx' = registerEffect(cleanupEffect(ctx), player.mediaRef)
    /\ UNCHANGED <<player, dom, timestamps, calledUnbound, chatVars, uiVars, pageVars>>

\* fileType changes between video and audio: another element takes the place
\* of the one rendered, under a render of the provider.
SwapElement ==
    /\ mounted
    /\ dom.created < MaxElements
    /\ LET el == dom.created + 1
       IN  /\ dom' = NewElement(el)
           /\ player' = [player EXCEPT !.mediaRef = el]
           /\ ctx' = registerEffect(cleanupEffect(ctx), el)
    /\ UNCHANGED <<timestamps, calledUnbound, chatVars, uiVars, pageVars>>

\* HomePage: setTimestamps(timestampData.timestamps)
SetTimestamps ==
    /\ timestamps = <<>>
    /\ \E ts \in TimestampLists \ {<<>>} :
          /\ timestamps' = ts
          /\ player' = IF mounted THEN activeTimestampEffect(player, ts) ELSE player
    /\ UNCHANGED <<ctx, dom, calledUnbound, chatVars, uiVars, pageVars>>

\* The element's position moves: playback, or the user on the native controls.
Playback ==
    /\ dom.live # NoElement
    /\ \E t \in Times : dom' = [dom EXCEPT !.currentTime = t]
    /\ UNCHANGED <<player, ctx, timestamps, calledUnbound, chatVars, uiVars, pageVars>>

\* The user plays or pauses on the native controls.
NativePlayPause ==
    /\ dom.live # NoElement
    /\ dom' = [dom EXCEPT !.paused = ~@]
    /\ UNCHANGED <<player, ctx, timestamps, calledUnbound, chatVars, uiVars, pageVars>>

\* What the handlers read from the element behind a reference.
elementTime(d, ref) == IF IsLive(d, ref) THEN d.currentTime ELSE 0
elementDuration(d, ref) == IF IsLive(d, ref) THEN MaxTime ELSE 0

\* useMediaPlayer.seekToTime (a click on a topic)
seekToTime(time) ==
    /\ IF bound(player.mediaRef)
       THEN /\ dom' = seekAndPlay(dom, player.mediaRef, time)
            /\ player' = [player EXCEPT !.isPlaying = TRUE]
       ELSE UNCHANGED <<dom, player>>
    /\ calledUnbound' = (calledUnbound \/ player.mediaRef = NoElement)
    /\ UNCHANGED <<ctx, timestamps, chatVars, uiVars, pageVars>>

\* MediaPlayerProvider.seekToTime (ChatInterface.handlePlayFromTimestamp)
ctxSeekToTime(seconds) ==
    /\ IF bound(ctx.mediaRef)
       THEN /\ dom' = seekAndPlay(dom, ctx.mediaRef, seconds)
            /\ ctx' = [ctx EXCEPT !.isPlaying = TRUE]
       ELSE UNCHANGED <<dom, ctx>>
    /\ calledUnbound' = (calledUnbound \/ ctx.mediaRef = NoElement)
    /\ UNCHANGED <<player, timestamps, chatVars, uiVars, pageVars>>

handleTimeUpdate ==
    /\ IF bound(player.mediaRef)
       THEN player' = activeTimestampEffect(
                          [player EXCEPT !.currentTime = elementTime(dom, player.mediaRef)],
                          timestamps)
       ELSE UNCHANGED player
    /\ calledUnbound' = (calledUnbound \/ player.mediaRef = NoElement)
    /\ UNCHANGED <<ctx, dom, timestamps, chatVars, uiVars, pageVars>>

handleLoadedMetadata ==
    /\ IF bound(player.mediaRef)
       THEN player' = [player EXCEPT !.duration = elementDuration(dom, player.mediaRef)]
       ELSE UNCHANGED player
    /\ calledUnbound' = (calledUnbound \/ player.mediaRef = NoElement)
    /\ UNCHANGED <<ctx, dom, timestamps, chatVars, uiVars, pageVars>>

togglePlayPause ==
    /\ IF bound(player.mediaRef)
       THEN /\ dom' = IF IsLive(dom, player.mediaRef)
                      THEN [dom EXCEPT !.paused = player.isPlaying]
                      ELSE dom
            /\ player' = [player EXCEPT !.isPlaying = ~@]
       ELSE UNCHANGED <<dom, player>>
    /\ calledUnbound' = (calledUnbound \/ player.mediaRef = NoElement)
    /\ UNCHANGED <<ctx, timestamps, chatVars, uiVars, pageVars>>

\* onPlay / onPause of the element
handlePlay ==
    /\ mounted
    /\ ~dom.paused
    /\ player' = [player EXCEPT !.isPlaying = TRUE]
    /\ UNCHANGED <<ctx, dom, timestamps, calledUnbound, chatVars, uiVars, pageVars>>

handlePause ==
    /\ mounted
    /\ dom.paused
    /\ player' = [player EXCEPT !.isPlaying = FALSE]
    /\ UNCHANGED <<ctx, dom, timestamps, calledUnbound, chatVars, uiVars, pageVars>>

MediaInit ==
    /\ player = HookInit
    /\ ctx = ProviderInit
    /\ dom = NoDom(0)
    /\ timestamps = <<>>
    /\ calledUnbound = FALSE

----------------------------------------------------------------------------
(* HomePage: the selected file, loadFileDetails and pollFileStatus *)

MaxLoads == 2        \* loadFileDetails calls in a behaviour
MaxPolls == 2        \* pollFileStatus invocations in a behaviour
MaxPendingPolls == 1 \* status fetches of a poll the server answers "not ready" to

maxAttempts == 60

LoadSlots == 1..MaxLoads
PollSlots == 1..MaxPolls

FileIds == {fileId, otherFileId}
Statuses == {"pending", "processing", "completed", "failed"}

\* The files of the server: the first one is a recording, the other a PDF.
FileTypeOf(f) == IF f = fileId THEN "audio" ELSE "pdf"
FileData(f, status) ==
    [file_id |-> f, file_type |-> FileTypeOf(f), processing_status |-> status]

\* timestampData.timestamps of a recording.
TimestampsOf(f) == <<TimestampEntry(1)>>

IsMedia(fileData) == fileData.file_type \in {"audio", "video"}
StillProcessing(fileData) == fileData.processing_status \in {"pending", "processing"}

FreeLoad == [pc |-> "free", fileId |-> "", fileData |-> {}]
FreePoll ==
    [ pc |-> "free",       \* free | fetching | timestamps | waiting | stopped
      fileId |-> "",
      attempts |-> 0,      \* pollFileStatus: attempts
      fetches |-> 0,       \* history: fileService.getFile calls of the invocation
      last |-> "",         \* history: what the last status fetch answered
      outcome |-> "" ]     \* history: completed | failed | timeout | error

PageInit ==
    /\ selectedFileId = {}
    /\ currentFile = {}
    /\ isLoadingFile = FALSE
    /\ loads = [l \in LoadSlots |-> FreeLoad]
    /\ polls = [p \in PollSlots |-> FreePoll]

\* setTimestamps(...): MediaPlayer's effect on [currentTime, timestamps] runs
\* when the player is mounted.
setTimestamps(ts) ==
    /\ timestamps' = ts
    /\ player' = IF mounted THEN activeTimestampEffect(player, ts) ELSE player
    /\ UNCHANGED <<ctx, dom, calledUnbound>>

FreeLoadSlots == {l \in LoadSlots : loads[l].pc = "free"}
FreePollSlots == {p \in PollSlots : polls[p].pc = "free"}
Lowest(S) == CHOOSE i \in S : \A j \in S : i <= j

\* handleSelectFile(fileId) and the effect on [selectedFileId]:
\* loadFileDetails(fileId) runs to its first await.
handleSelectFile(f) ==
    /\ selectedFileId # {f}
    /\ FreeLoadSlots # {}
    /\ selectedFileId' = {f}
    /\ isLoadingFile' = TRUE
    /\ loads' = [loads EXCEPT ![Lowest(FreeLoadSlots)] =
                     [pc |-> "getFile", fileId |-> f, fileData |-> {}]]
    /\ UNCHANGED <<currentFile, polls, chatVars, mediaVars, uiVars>>

\* handleSelectFile(null): the effect clears the file and the timestamps.
handleSelectNone ==
    /\ selectedFileId # {}
    /\ selectedFileId' = {}
    /\ currentFile' = {}
    /\ setTimestamps(<<>>)
    /\ UNCHANGED <<isLoadingFile, loads, polls, chatVars, uiVars>>

\* pollFileStatus(fileId): attempts = 0, poll() runs to its await.
pollFileStatus(f) ==
    /\ FreePollSlots # {}
    /\ polls' = [polls EXCEPT ![Lowest(FreePollSlots)] =
                     [FreePoll EXCEPT !.pc = "fetching", !.fileId = f, !.fetches = 1]]

\* loadFileDetails after the timestamps: the poll for a file still being
\* processed, then finally.
loadFileDetailsEnd(l, fileData) ==
    /\ IF StillProcessing(fileData) THEN pollFileStatus(loads[l].fileId)
                                    ELSE UNCHANGED polls
    /\ isLoadingFile' = FALSE
    /\ loads' = [loads EXCEPT ![l] = FreeLoad]

\* fileService.getFile(fileId) of loadFileDetails resolves.
LoadGetFileOk(l) ==
    /\ loads[l].pc = "getFile"
    /\ \E status \in Statuses :
          LET fileData == FileData(loads[l].fileId, status)
          IN  /\ currentFile' = {fileData}
              /\ IF IsMedia(fileData)
                 THEN /\ loads' = [loads EXCEPT ![l].pc = "getTimestamps",
                                                ![l].fileData = {fileData}]
                      /\ UNCHANGED <<isLoadingFile, polls, mediaVars>>
                 ELSE /\ setTimestamps(<<>>)
                      /\ loadFileDetailsEnd(l, fileData)
    /\ UNCHANGED <<selectedFileId, chatVars, uiVars>>

\* fileService.getFile(fileId) of loadFileDetails rejects.
LoadGetFileFail(l) ==
    /\ loads[l].pc = "getFile"
    /\ currentFile' = {}
    /\ isLoadingFile' = FALSE
    /\ loads' = [loads EXCEPT ![l] = FreeLoad]
    /\ UNCHANGED <<selectedFileId, polls, chatVars, mediaVars, uiVars>>

LoadTimestampsOk(l) ==
    /\ loads[l].pc = "getTimestamps"
    /\ setTimestamps(TimestampsOf(loads[l].fileId))
    /\ \E fileData \in loads[l].fileData : loadFileDetailsEnd(l, fileData)
    /\ UNCHANGED <<selectedFileId, currentFile, chatVars, uiVars>>

LoadTimestampsFail(l) ==
    /\ loads[l].pc = "getTimestamps"
    /\ setTimestamps(<<>>)
    /\ \E fileData \in loads[l].fileData : loadFileDetailsEnd(l, fileData)
    /\ UNCHANGED <<selectedFileId, currentFile, chatVars, uiVars>>

\* A retry test that lets one poll too many through.
mayRetryInclusive(attempts) == attempts <= maxAttempts

\* attempts < maxAttempts
mayRetry(attempts) == attempts < maxAttempts

\* fileService.getFile(fileId) of poll() resolves with a status.
PollFetchOk(p, status) ==
    /\ polls[p].pc = "fetching"
    /\ LET fileData == FileData(polls[p].fileId, status)
           q == [polls[p] EXCEPT !.last = status]
       IN  IF status = "completed" THEN
               /\ currentFile' = {fileData}
               /\ polls' = [polls EXCEPT ![p] =
                      [q EXCEPT !.outcome = "completed",
                                !.pc = IF IsMedia(fileData) THEN "timestamps" ELSE "stopped"]]
           ELSE IF status = "failed" THEN
               /\ polls' = [polls EXCEPT ![p] = [q EXCEPT !.outcome = "failed", !.pc = "stopped"]]
               /\ UNCHANGED currentFile
           ELSE IF mayRetry(polls[p].attempts) THEN
               /\ polls' = [polls EXCEPT ![p] = [q EXCEPT !.attempts = @ + 1, !.pc = "waiting"]]
               /\ UNCHANGED currentFile
           ELSE
               /\ polls' = [polls EXCEPT ![p] = [q EXCEPT !.outcome = "timeout", !.pc = "stopped"]]
               /\ UNCHANGED currentFile
    /\ UNCHANGED <<selectedFileId, isLoadingFile, loads, chatVars, mediaVars, uiVars>>

\* The status fetch rejects: the catch logs, nothing is scheduled.
PollFetchFail(p) ==
    /\ polls[p].pc = "fetching"
    /\ polls' = [polls EXCEPT ![p].last = "rejected", ![p].outcome = "error",
                              ![p].pc = "stopped"]
    /\ UNCHANGED <<selectedFileId, currentFile, isLoadingFile, loads,
                   chatVars, mediaVars, uiVars>>

\* setTimeout(poll, 5000) fires: the next status fetch.
PollTimer(p) ==
    /\ polls[p].pc = "waiting"
    /\ polls' = [polls EXCEPT ![p].pc = "fetching", ![p].fetches = @ + 1]
    /\ UNCHANGED <<selectedFileId, currentFile, isLoadingFile, loads,
                   chatVars, mediaVars, uiVars>>

PollTimestampsOk(p) ==
    /\ polls[p].pc = "timestamps"
    /\ setTimestamps(TimestampsOf(polls[p].fileId))
    /\ polls' = [polls EXCEPT ![p].pc = "stopped"]
    /\ UNCHANGED <<selectedFileId, currentFile, isLoadingFile, loads, chatVars, uiVars>>

\* catch { /* No timestamps yet */ }
PollTimestampsFail(p) ==
    /\ polls[p].pc = "timestamps"
    /\ polls' = [polls EXCEPT ![p].pc = "stopped"]
    /\ UNCHANGED <<selectedFileId, currentFile, isLoadingFile, loads,
                   chatVars, mediaVars, uiVars>>

----------------------------------------------------------------------------
(* Specifications *)

UiInit ==
    /\ question = <<>>
    /\ submitIgnored = FALSE
    /\ shownFileId = fileId
    /\ loadPcOther = "idle"

AppInit ==
    /\ isLoading = FALSE
    /\ chatHistory = NullHistory
    /\ error = {}
    /\ streamingMessage = <<>>
    /\ lastSuggestedTimestamp = {}
    /\ turn = [t \in Slots |-> FreeTurn]
    /\ turnsStarted = 0
    /\ server \in InitialTranscripts
    /\ loadPc = "pending"
    /\ framesSent = 0
    /\ MediaInit
    /\ UiInit

Init == AppInit /\ PageInit

TurnStep(t) ==
    \/ FetchReject(t)
    \/ FetchNotOk(t)
    \/ FetchOk(t)
    \/ ServerSend(t)
    \/ ReaderRead(t)
    \/ ReaderFail(t)
    \/ ReaderDone(t)
    \/ HistoryOk(t)
    \/ HistoryFail(t)
    \/ ServerPersistAnswer(t)

Inputs == {<<>>, <<" ">>, <<"q">>}

Next ==
    \/ \E value \in Inputs : setQuestion(value)
    \/ handleSubmit
    \/ \E t \in Slots : TurnStep(t)
    \/ LoadHistoryOk
    \/ LoadHistoryFail

\* The application: askQuestion is reached through ChatInterface.handleSubmit.
Spec == Init /\ [][Next]_vars

TurnStepHook(t) ==
    \/ FetchReject(t)
    \/ FetchNotOk(t)
    \/ FetchOk(t)
    \/ ServerSend(t)
    \/ ReaderReadWhole(t)
    \/ ReaderFail(t)
    \/ ReaderDone(t)
    \/ HistoryOk(t)
    \/ HistoryFail(t)
    \/ ServerPersistAnswer(t)

NextHook ==
    \/ AskQuestionDirect
    \/ \E t \in Slots : TurnStepHook(t)
    \/ LoadHistoryOk
    \/ LoadHistoryFail

\* The application when every request settles: the fetch resolves or rejects,
\* the response comes to its end or the read fails, and the history fetch
\* resolves or rejects.
Settles ==
    WF_vars(\E t \in Slots :
               \/ FetchReject(t) \/ FetchNotOk(t) \/ FetchOk(t)
               \/ ReaderDone(t) \/ ReaderFail(t)
               \/ HistoryOk(t) \/ HistoryFail(t))

SpecLive == Init /\ [][Next]_vars /\ Settles

\* The input and the form while the first file is shown.
TypeQuestion == shownFileId = fileId /\ setQuestion(<<"q">>)
SubmitQuestion == shownFileId = fileId /\ handleSubmit

NextFiles ==
    \/ TypeQuestion
    \/ SubmitQuestion
    \/ \E t \in Slots : TurnStep(t)
    \/ LoadHistoryOk
    \/ LoadHistoryFail
    \/ ChangeFile
    \/ LoadHistoryOtherOk
    \/ LoadHistoryOtherFail

\* The application when the user goes from the first file to another one.
SpecFiles == Init /\ [][NextFiles]_vars

\* One invocation of pollFileStatus, as loadFileDetails makes it for a file
\* that is still being processed; the server may answer anything, any time.
InitPoll ==
    /\ AppInit
    /\ server.chat_id = ""
    /\ \E f \in FileIds :
          /\ selectedFileId = {f}
          /\ currentFile = {FileData(f, "pending")}
          /\ polls = [p \in PollSlots |->
                        IF p = 1 THEN [FreePoll EXCEPT !.pc = "fetching", !.fileId = f,
                                                       !.fetches = 1]
                        ELSE FreePoll]
    /\ isLoadingFile = FALSE
    /\ loads = [l \in LoadSlots |-> FreeLoad]

PollStep(p) ==
    \/ \E status \in Statuses : PollFetchOk(p, status)
    \/ PollFetchFail(p)
    \/ PollTimer(p)
    \/ PollTimestampsOk(p)
    \/ PollTimestampsFail(p)

NextPoll == \E p \in PollSlots : PollStep(p)

SpecPoll == InitPoll /\ [][NextPoll]_vars

\* Every status fetch and timestamp fetch settles and every timer fires.
SpecPollLive == InitPoll /\ [][NextPoll]_vars /\ WF_vars(NextPoll)

\* A server that is done with a file after MaxPendingPolls status fetches.
PollFetchOkSoon(p) ==
    \E status \in Statuses :
        /\ status \in {"pending", "processing"} => polls[p].fetches <= MaxPendingPolls
        /\ PollFetchOk(p, status)

NextPage ==
    \/ \E f \in FileIds : handleSelectFile(f)
    \/ handleSelectNone
    \/ \E l \in LoadSlots :
          \/ LoadGetFileOk(l)
          \/ LoadGetFileFail(l)
          \/ LoadTimestampsOk(l)
          \/ LoadTimestampsFail(l)
    \/ \E p \in PollSlots :
          \/ PollFetchOkSoon(p)
          \/ PollFetchFail(p)
          \/ PollTimer(p)
          \/ PollTimestampsOk(p)
          \/ PollTimestampsFail(p)

\* HomePage beside a chat and a player at rest.
InitPage == Init /\ server.chat_id = ""

SpecPage == InitPage /\ [][NextPage]_vars

TurnStepHintZero(t) ==
    \/ FetchReject(t)
    \/ FetchNotOk(t)
    \/ FetchOk(t)
    \/ ServerSendHintZero(t)
    \/ ReaderRead(t)
    \/ ReaderFail(t)
    \/ ReaderDone(t)
    \/ HistoryOk(t)
    \/ HistoryFail(t)
    \/ ServerPersistAnswer(t)

NextHintZero ==
    \/ \E value \in Inputs : setQuestion(value)
    \/ handleSubmit
    \/ \E t \in Slots : TurnStepHintZero(t)
    \/ LoadHistoryOk
    \/ LoadHistoryFail

\* The application with a server that suggests the start of the recording.
SpecHintZero == Init /\ [][NextHintZero]_vars

\* The hook on its own: any consumer may call askQuestion at any time.
SpecHook == Init /\ [][NextHook]_vars

\* The service on its own, as the hook drives it: one accepted question whose
\* request was answered 2xx, a body of any lines, reads that end anywhere.
InitStream ==
    \E asked \in Questions :
        /\ isLoading = TRUE
        /\ chatHistory = optimisticAppend(NullHistory, Message(TempId(1), "user", asked, {}))
        /\ error = {}
        /\ streamingMessage = <<>>
        /\ lastSuggestedTimestamp = {}
        /\ turn = [t \in Slots |->
                     IF t = 1 THEN [FreeTurn EXCEPT !.pc = "reading", !.question = asked]
                     ELSE FreeTurn]
        /\ turnsStarted = 1
        /\ server = serverAccept([chat_id |-> "", messages |-> <<>>], asked)
        /\ loadPc = "done"
        /\ framesSent = 0
        /\ MediaInit
        /\ UiInit
        /\ PageInit

NextStream ==
    \E t \in Slots :
        \/ ServerSendAny(t)
        \/ ServerSendUnterminated(t)
        \/ ReaderReadAny(t)
        \/ ReaderDone(t)

SpecStream == InitStream /\ [][NextStream]_vars

\* The player of one media file, beside a chat that is at rest.
InitMedia == Init /\ server.chat_id = ""

NextMedia ==
    \/ Mount
    \/ Unmount
    \/ Rerender
    \/ SwapElement
    \/ SetTimestamps
    \/ Playback
    \/ NativePlayPause
    \/ \E time \in Times : seekToTime(time)
    \/ \E seconds \in Times : ctxSeekToTime(seconds)
    \/ handleTimeUpdate
    \/ handleLoadedMetadata
    \/ togglePlayPause
    \/ handlePlay
    \/ handlePause

SpecMedia == InitMedia /\ [][NextMedia]_vars

----------------------------------------------------------------------------
(* Vocabulary of the properties *)

Active(t) == turn[t].pc # "free"

\* Everything the server has written has been read.
Drained(t) == turn[t].pc \in {"reading", "awaitHistory"} /\ turn[t].net = <<>>

\* The callback calls a sequence of written lines asks for, in wire order.
RECURSIVE ExpectedCalls(_)
ExpectedCalls(evs) ==
    IF evs = <<>> THEN <<>>
    ELSE (CASE evs[1].type = "content" -> <<Call("onChunk", evs[1].text, {})>>
            [] evs[1].type = "done" -> <<Call("onComplete", <<>>, evs[1].ts)>>
            [] OTHER -> <<>>)
         \o ExpectedCalls(Tail(evs))

\* The suggested_timestamp of the done frame of a response ({}: none carried).
DoneTs(evs) ==
    IF HasDone(evs)
    THEN evs[CHOOSE i \in 1..Len(evs) : evs[i].type = "done"].ts
    ELSE {}

\* The steps that end turn t.
EndsFromStream(t) == turn[t].pc \in {"awaitFetch", "reading"} /\ turn'[t].pc = "free"
EndsFromHistory(t) == turn[t].pc = "awaitHistory" /\ turn'[t].pc = "free"

\* The body of turn t read so far, and the same text handed over in one read.
Delivered(t) ==
    LET all == EncodeAll(turn[t].sent)
    IN  SubSeq(all, 1, Len(all) - Len(turn[t].net))

Unsplit(body) ==
    readChunk([t |-> [FreeTurn EXCEPT !.pc = "reading"],
               streamingMessage |-> <<>>, lastSuggestedTimestamp |-> {}], body)

Strip(evs) == SelectSeq(evs, LAMBDA ev : ~IsIgnorable(ev))

----------------------------------------------------------------------------
(* C1: the deltas D1..Dn of a response reach the live buffer in wire order, *)
(* none dropped or repeated: whenever all that was written has been read,   *)
(* and still when the history fetch is issued, streamingMessage is the      *)
(* concatenation of the content frames written so far, and the callbacks    *)
(* were called in the order of the frames (onComplete after every onChunk). *)
C1_LiveBufferIsConcatenation ==
    \A t \in Slots :
        Drained(t) =>
            /\ streamingMessage = ContentOf(turn[t].sent)
            /\ turn[t].fullAnswer = ContentOf(turn[t].sent)
            /\ turn[t].calls = ExpectedCalls(turn[t].sent)

C1_Witness ==
    \E t \in Slots :
        /\ turn[t].pc = "awaitHistory"
        /\ turn[t].sent = << Ev("content", <<"a">>, {}), Ev("content", <<"b">>, {}),
                             Ev("done", <<>>, {}) >>
        /\ streamingMessage = <<"a", "b">>

----------------------------------------------------------------------------
(* C2: chunk-boundary invariance.  However the body read so far was cut    *)
(* into reads, the service made the calls, holds the suggested_timestamp   *)
(* and keeps the unfinished line it would after one read of the same text. *)
C2_ChunkBoundaryInvariance ==
    \A t \in Slots :
        turn[t].pc \in {"reading", "awaitHistory"} =>
            LET whole == Unsplit(Delivered(t)).t
            IN  /\ turn[t].calls = whole.calls
                /\ turn[t].suggestedTimestamp = whole.suggestedTimestamp
                /\ turn[t].buffer = whole.buffer
                /\ turn[t].fullAnswer = whole.fullAnswer

\* A read ended inside the payload of the second frame, after the first
\* frame was dispatched: the cut line waits in the buffer for its rest.
C2_Witness ==
    \E t \in Slots :
        /\ turn[t].pc = "reading"
        /\ turn[t].calls = << Call("onChunk", <<"a">>, {}) >>
        /\ turn[t].buffer = DataPrefix \o <<"{", "d">>
        /\ turn[t].net = <<"5", "}", NL, NL>>

(* C10: ignorable lines never disturb the stream.  With malformed, unknown, *)
(* empty and prefix-less lines anywhere in the body, the calls made and the *)
(* suggested_timestamp held are those of the body without these lines.      *)
C10_IgnorableLinesChangeNothing ==
    \A t \in Slots :
        Drained(t) =>
            LET bare == Unsplit(EncodeAll(Strip(turn[t].sent))).t
            IN  /\ turn[t].calls = bare.calls
                /\ turn[t].suggestedTimestamp = bare.suggestedTimestamp
                /\ turn[t].fullAnswer = bare.fullAnswer

C10_Witness ==
    \E t \in Slots :
        /\ Drained(t)
        /\ turn[t].sent = << Ev("malformed", <<>>, {}), Ev("content", <<"a">>, {}),
                             Ev("unknown", <<>>, {}) >>
        /\ turn[t].calls = << Call("onChunk", <<"a">>, {}) >>

----------------------------------------------------------------------------
(* C3: askQuestion called while a question is in flight (isLoading) is a   *)
(* no-op: no step taken while isLoading starts another turn (another       *)
(* request, another optimistic message, a reset of the hook state).        *)
C3_SubmitWhileLoadingIsNoOp ==
    [][isLoading => (turnsStarted' = turnsStarted /\ InFlight' \subseteq InFlight)]_vars

----------------------------------------------------------------------------
HasError(evs) == \E i \in 1..Len(evs) : evs[i].type = "error"
ErrorOf(evs) == evs[CHOOSE i \in 1..Len(evs) : evs[i].type = "error"].text

HasUserMessage(h, asked) ==
    /\ h # NullHistory
    /\ \E i \in 1..Len(h.messages) :
          h.messages[i].role = "user" /\ h.messages[i].content = asked

(* C4: an error frame {type:"error", error:E} ends the turn.  Once a       *)
(* content frame and then an error frame have been read, the turn is over: *)
(* E is the surfaced error, the live buffer is empty and the hook is Idle  *)
(* (no state has the error frame read and the turn still going on).        *)
C4_ErrorFrameEndsTurnWithItsMessage ==
    \A t \in Slots :
        ( /\ Drained(t)
          /\ Len(turn[t].sent) >= 2
          /\ turn[t].sent[Len(turn[t].sent) - 1].type = "content"
          /\ turn[t].sent[Len(turn[t].sent)].type = "error" ) =>
            /\ error = {ErrorOf(turn[t].sent)}
            /\ streamingMessage = <<>>
            /\ ~isLoading

(* C5: the suggested_timestamp T of the done frame reaches the transcript. *)
(* The step that ends a turn with a successful history fetch leaves        *)
(* lastSuggestedTimestamp = T and T on the last message when that message  *)
(* is the assistant's; with no T in the done frame the fetched messages    *)
(* are taken as they are and lastSuggestedTimestamp stays undefined.       *)
C5_DoneTimestampIsAttached ==
    [][\A t \in Slots :
          (EndsFromHistory(t) /\ error' = {}) =>
              LET T == DoneTs(turn[t].sent)
                  msgs == chatHistory'.messages
                  n == Len(msgs)
              IN  /\ lastSuggestedTimestamp' = T
                  /\ T # {} /\ n > 0 /\ msgs[n].role = "assistant"
                        => msgs[n].suggested_timestamp = T
                  /\ T = {} => msgs = server.messages]_vars

C5_Witness ==
    /\ ~isLoading
    /\ error = {}
    /\ lastSuggestedTimestamp = {5}
    /\ chatHistory # NullHistory
    /\ Len(chatHistory.messages) > 0
    /\ chatHistory.messages[Len(chatHistory.messages)].role = "assistant"
    /\ chatHistory.messages[Len(chatHistory.messages)].suggested_timestamp = {5}

(* C6: reconciliation replaces the local conversation wholesale.  The step *)
(* that ends a turn with a successful history fetch leaves chatHistory     *)
(* equal to the fetched history, but for the suggested_timestamp of its    *)
(* last message: the server's messages in the server's order, no temp id,  *)
(* and an empty live buffer.                                               *)
C6_ReconciliationReplacesWholesale ==
    [][\A t \in Slots :
          (EndsFromHistory(t) /\ error' = {}) =>
              LET h == chatHistory'
                  n == Len(ServerHistory.messages)
              IN  /\ h # NullHistory
                  /\ h.chat_id = ServerHistory.chat_id
                  /\ h.file_id = ServerHistory.file_id
                  /\ h.total_messages = ServerHistory.total_messages
                  /\ h.total_tokens = ServerHistory.total_tokens
                  /\ Len(h.messages) = n
                  /\ \A i \in 1..n :
                        /\ h.messages[i].message_id = ServerHistory.messages[i].message_id
                        /\ h.messages[i].role = ServerHistory.messages[i].role
                        /\ h.messages[i].content = ServerHistory.messages[i].content
                        /\ i < n => h.messages[i] = ServerHistory.messages[i]
                        /\ ~h.messages[i].message_id.temp
                  /\ streamingMessage' = <<>>]_vars

\* The first turn has ended without an error while the mount's loadHistory is
\* still pending: what is shown came from the turn's own history fetch.
C6_Witness ==
    /\ ~isLoading
    /\ error = {}
    /\ turnsStarted = 1
    /\ loadPc = "pending"
    /\ chatHistory # NullHistory
    /\ chatHistory.messages =
           << Message(ServerId(1), "user", <<"q">>, {}),
              Message(ServerId(2), "assistant", <<"a", "b">>, {}) >>
    /\ streamingMessage = <<>>

(* C7: a failed streaming request (fetch rejected, non-2xx status, read    *)
(* failure).  The step that ends the turn from the request or the read     *)
(* loop surfaces the failure's message as the one error, clears the live   *)
(* buffer, sets isLoading to false, goes to no history fetch and leaves    *)
(* chatHistory as it was; the next submit passes handleSubmit's guard.     *)
C7_StreamFailureIsSurfaced ==
    [][\A t \in Slots :
          EndsFromStream(t) =>
              /\ turn[t].pc = "awaitFetch" =>
                     error' \in {{NetworkError}} \cup {{HttpError(st)} : st \in HttpStatuses}
              /\ turn[t].pc = "reading" => error' = {ReadError}
              /\ streamingMessage' = <<>>
              /\ isLoading' = FALSE
              /\ chatHistory' = chatHistory
              /\ \A q \in Questions : canSubmit(q)']_vars

\* After a turn that failed while text was streaming, a second question has
\* been accepted: both optimistic messages are in the conversation.
C7_Witness ==
    /\ isLoading
    /\ turnsStarted = 2
    /\ framesSent > 0
    /\ chatHistory # NullHistory
    /\ Len(chatHistory.messages) = 2
    /\ \A i \in 1..2 : chatHistory.messages[i].message_id = TempId(i)

(* C8: a failed history fetch after a completed stream is not fatal.  The  *)
(* step that ends a turn from the history fetch either reconciles or, the  *)
(* fetch having failed, surfaces no error and retracts nothing: error,     *)
(* chatHistory and the streamed text stay as they were.                    *)
C8_HistoryFailureIsNotFatal ==
    [][\A t \in Slots :
          EndsFromHistory(t) =>
              \/ /\ chatHistory' = attachSuggestedTimestamp(ServerHistory, turn[t].suggestedTs)
                 /\ error' = {}
                 /\ streamingMessage' = <<>>
              \/ /\ error' = error
                 /\ chatHistory' = chatHistory
                 /\ streamingMessage' = streamingMessage]_vars

(* C9: after a turn that ends in failure the user's question is still in   *)
(* chatHistory.messages and no streamed text is left: the step that ends a *)
(* turn with an error leaves a user message holding the question, an empty *)
(* live buffer and no assistant message that was not there before.         *)
C9_QuestionSurvivesFailure ==
    [][\A t \in Slots :
          (Active(t) /\ turn'[t].pc = "free" /\ error' # {}) =>
              /\ HasUserMessage(chatHistory', turn[t].question)
              /\ streamingMessage' = <<>>
              /\ chatHistory' = chatHistory]_vars

----------------------------------------------------------------------------
(* C11: a response that ends (the reader reports done) with no done and no *)
(* error frame received is finalized as a soft failure: the step that ends *)
(* such a turn reports it as failed (an error is surfaced), with the live  *)
(* buffer cleared and the hook back to Idle.                               *)
C11_CloseWithoutTerminalIsSoftFailure ==
    [][\A t \in Slots :
          (EndsFromHistory(t) /\ ~HasTerminal(turn[t].sent)) =>
              /\ error' # {}
              /\ streamingMessage' = <<>>
              /\ isLoading' = FALSE]_vars

(* C12: a non-2xx response fails the request at once.  The step that ends a *)
(* turn from the pending request, other than by a rejected fetch, surfaces  *)
(* "HTTP error! status: <status>"; no reader was taken, nothing of a body   *)
(* was read, and neither onChunk nor onComplete was called (no streamed     *)
(* text, no suggested timestamp).                                           *)
C12_NonOkFailsBeforeReading ==
    [][\A t \in Slots :
          (turn[t].pc = "awaitFetch" /\ turn'[t].pc = "free" /\ error' # {NetworkError}) =>
              /\ \E st \in HttpStatuses : error' = {<<"HTTP error! status: ", ToString(st)>>}
              /\ turn[t].calls = <<>>
              /\ turn[t].buffer = <<>>
              /\ turn[t].sent = <<>>
              /\ streamingMessage' = <<>>
              /\ lastSuggestedTimestamp' = {}
              /\ isLoading' = FALSE]_vars

C12_Witness ==
    /\ ~isLoading
    /\ turnsStarted = 1
    /\ error = {<<"HTTP error! status: ", "500">>}
    /\ streamingMessage = <<>>
    /\ \A t \in Slots : turn[t].pc = "free"

(* C13: the chat_id of a request.  A turn submitted while the server has    *)
(* assigned no chat to the conversation carries no chat_id, also when       *)
(* earlier turns failed before any reconciliation; a turn submitted after a *)
(* reconciliation or a history load delivered the chat_id carries exactly   *)
(* the server-assigned one.                                                 *)
C13_RequestChatId ==
    [][\A t \in Slots :
          (turn[t].pc = "free" /\ turn'[t].pc = "awaitFetch") =>
              /\ server.chat_id = "" => turn'[t].reqChatId = {}
              /\ (chatHistory # NullHistory /\ chatHistory.chat_id # "") =>
                     turn'[t].reqChatId = {server.chat_id}]_vars

(* C14: chat_id is never reassigned.  Once chatHistory.chat_id holds an     *)
(* assigned id, no step (submit, failed turn, reconciliation, history load) *)
(* changes it.                                                              *)
C14_ChatIdNeverReassigned ==
    [][(chatHistory # NullHistory /\ chatHistory.chat_id # "") =>
           (chatHistory' # NullHistory /\ chatHistory'.chat_id = chatHistory.chat_id)]_vars

\* A second question is on its way in a conversation whose chat_id the first
\* turn's reconciliation delivered.
C14_Witness ==
    /\ isLoading
    /\ turnsStarted = 2
    /\ chatHistory # NullHistory
    /\ chatHistory.chat_id = AssignedChatId
    /\ Len(chatHistory.messages) = 3
    /\ chatHistory.messages[3].message_id = TempId(2)
    /\ \E t \in Slots : turn[t].reqChatId = {AssignedChatId}

----------------------------------------------------------------------------
(* C19: the relay lookup of renderMessage.  For every message rendered, the *)
(* timestamp offered is its own suggested_timestamp when it has one;        *)
(* otherwise lastSuggestedTimestamp if and only if the message is the last  *)
(* one and the assistant's; any other message (user messages, non-last      *)
(* messages without a timestamp of their own) is offered none.              *)
C19_RelayLookupRule ==
    LET msgs == renderedMessages
        n == Len(msgs)
    IN  \A i \in 1..n :
            LET offered == affordance(msgs[i], i = n)
                own == msgs[i].suggested_timestamp
            IN  /\ msgs[i].role = "user" => offered = {} /\ own = {}
                /\ (msgs[i].role = "assistant" /\ own # {}) => offered = own
                /\ (msgs[i].role = "assistant" /\ own = {} /\ i = n) =>
                       offered = lastSuggestedTimestamp
                /\ (msgs[i].role = "assistant" /\ own = {} /\ i < n) => offered = {}

\* The mount's history load came back after the turn: the fetched messages
\* carry no timestamp, the last one is offered the relayed value, the earlier
\* assistant message none.
C19_Witness ==
    LET msgs == renderedMessages
        n == Len(msgs)
    IN  /\ ~isLoading
        /\ lastSuggestedTimestamp = {5}
        /\ n = 4
        /\ msgs[2].role = "assistant" /\ affordance(msgs[2], FALSE) = {}
        /\ msgs[n].role = "assistant"
        /\ msgs[n].suggested_timestamp = {}
        /\ affordance(msgs[n], TRUE) = {5}

(* C20: no window without the affordance.  From the processing of a done    *)
(* frame that carries suggested_timestamp = T until the reconciliation      *)
(* completes, whenever the streamed answer is displayed the "Play from T"   *)
(* button is rendered with it: on the bubble of the answer or on the last   *)
(* message of the list.                                                     *)
C20_AffordanceAfterDone ==
    \A t \in Slots :
        (Active(t) /\ turn[t].suggestedTs # {} /\ streamingBubbleShown) =>
            LET msgs == renderedMessages
                n == Len(msgs)
            IN  \/ streamingBubbleAffordance = turn[t].suggestedTs
                \/ n > 0 /\ affordance(msgs[n], TRUE) = turn[t].suggestedTs

----------------------------------------------------------------------------
\* The 0-based index of the last entry with time <= t, -1 when there is none.
LastAtOrBefore(ts, t) ==
    LET S == {i \in 1..Len(ts) : ts[i].time <= t}
    IN  IF S = {} THEN -1 ELSE (CHOOSE i \in S : \A j \in S : j <= i) - 1

\* The entries 0 s, 120 s, 300 s, in tenths of a second.
ExampleEntries == <<TimestampEntry(0), TimestampEntry(1200), TimestampEntry(3000)>>

(* C15: the active index.  For every list that is non-decreasing by time    *)
(* (empty, equal times included) and every playhead position, the index     *)
(* MediaPlayer computes is that of the last entry with time <= position,    *)
(* -1 when the position precedes the first entry or the list is empty; for  *)
(* times [0,120,300]: active(-1) = -1, active(0) = 0, active(119.9) = 0,    *)
(* active(120) = 1, active(305) = 2.                                        *)
C15_ActiveIndexIsLastAtOrBefore ==
    /\ mounted =>
           player.activeTimestampIndex = LastAtOrBefore(timestamps, player.currentTime)
    /\ \A t \in -1..(MaxTime + 1) :
           activeIndex(timestamps, t) = LastAtOrBefore(timestamps, t)
    /\ activeIndex(ExampleEntries, -10) = -1
    /\ activeIndex(ExampleEntries, 0) = 0
    /\ activeIndex(ExampleEntries, 1199) = 0
    /\ activeIndex(ExampleEntries, 1200) = 1
    /\ activeIndex(ExampleEntries, 3050) = 2

\* Two entries of the same time, the playhead on it: the later one is active.
C15_Witness ==
    /\ mounted
    /\ timestamps = <<TimestampEntry(1), TimestampEntry(1)>>
    /\ player.currentTime = 1
    /\ player.activeTimestampIndex = 1

(* C16: seekToTime(time) with an element bound puts the element at exactly  *)
(* time, starts playback and sets isPlaying, whether it was playing or      *)
(* paused: for useMediaPlayer.seekToTime (topic click) and for the          *)
(* provider's seekToTime (the chat's play-from button).                     *)
C16_SeekJumpsAndPlays ==
    [][\A time \in Times :
          /\ (seekToTime(time) /\ player.mediaRef # NoElement) =>
                 /\ dom'.currentTime = time
                 /\ ~dom'.paused
                 /\ player'.isPlaying
          /\ (ctxSeekToTime(time) /\ ctx.mediaRef # NoElement) =>
                 /\ dom'.currentTime = time
                 /\ ~dom'.paused
                 /\ ctx'.isPlaying]_vars

\* The chat's button has sent the paused element to 2 s: it plays from there,
\* the hook has not yet heard of it.
C16_Witness ==
    /\ mounted
    /\ ctx.mediaRef = dom.live
    /\ ctx.isPlaying
    /\ dom.currentTime = 2
    /\ ~dom.paused
    /\ player.currentTime = 0
    /\ ~player.isPlaying

(* C17: with no element bound (none registered yet, or deregistered at      *)
(* unmount) seekToTime, handleTimeUpdate, handleLoadedMetadata and          *)
(* togglePlayPause, and the provider's seekToTime, are no-ops: isPlaying,   *)
(* currentTime, duration and the binding stay as they were.                 *)
C17_UnboundCallsAreNoOps ==
    [][/\ \A time \in Times :
             /\ (seekToTime(time) /\ player.mediaRef = NoElement) =>
                    UNCHANGED <<player, ctx, dom>>
             /\ (ctxSeekToTime(time) /\ ctx.mediaRef = NoElement) =>
                    UNCHANGED <<player, ctx, dom>>
       /\ ((handleTimeUpdate \/ handleLoadedMetadata \/ togglePlayPause)
               /\ player.mediaRef = NoElement) =>
              UNCHANGED <<player, ctx, dom>>]_vars

\* A handler was called after the unmount of a player that was playing.
C17_Witness ==
    /\ calledUnbound
    /\ ~mounted
    /\ ctx.mediaRef = NoElement
    /\ dom.created > 0
    /\ player.isPlaying
    /\ ctx.isPlaying

(* C18: registration is idempotent and never leaves a torn-down element.    *)
(* Registering an element twice binds what registering it once binds,       *)
(* deregistering twice is deregistering once, running the register effect   *)
(* again changes nothing, and in every state the shared reference is the    *)
(* element now rendered or null.                                            *)
C18_RegistrationIdempotent ==
    /\ \A e \in 0..MaxElements :
           registerMediaElement(registerMediaElement(ctx, e), e) = registerMediaElement(ctx, e)
    /\ cleanupEffect(cleanupEffect(ctx)) = cleanupEffect(ctx)
    /\ mounted => registerEffect(cleanupEffect(ctx), player.mediaRef) = ctx
    /\ ctx.mediaRef \in {NoElement, dom.live}

\* The second element is rendered and bound, the first one is torn down.
C18_Witness ==
    /\ dom.created = 2
    /\ dom.live = 2
    /\ ctx.mediaRef = 2
    /\ player.mediaRef = 2

----------------------------------------------------------------------------
(* C21: a suggested_timestamp, once set, does not change.  No step changes  *)
(* the suggested_timestamp a message of chatHistory has: the message of the *)
(* same id has the same value after the step (next turns, reconciliations   *)
(* and history loads included).                                             *)
C21_SuggestedTimestampIsStable ==
    [][\A i \in 1..Len(renderedMessages) :
          renderedMessages[i].suggested_timestamp # {} =>
              \A j \in 1..Len(renderedMessages') :
                  renderedMessages'[j].message_id = renderedMessages[i].message_id =>
                      renderedMessages'[j].suggested_timestamp =
                          renderedMessages[i].suggested_timestamp]_vars

(* C22: an accepted askQuestion(question).  The step that starts a turn     *)
(* appends exactly one optimistic user message holding the question, with a *)
(* client-generated id, after the messages there were (unchanged, in their  *)
(* order), clears the live buffer, the relay value and the error, sets      *)
(* isLoading and opens exactly one streaming request with that question.    *)
C22_AcceptedSubmit ==
    [][turnsStarted' # turnsStarted =>
          LET before == renderedMessages
              after == renderedMessages'
              n == Len(after)
          IN  /\ turnsStarted' = turnsStarted + 1
              /\ n = Len(before) + 1
              /\ SubSeq(after, 1, n - 1) = before
              /\ after[n].role = "user"
              /\ after[n].message_id.temp
              /\ after[n].suggested_timestamp = {}
              /\ streamingMessage' = <<>>
              /\ lastSuggestedTimestamp' = {}
              /\ error' = {}
              /\ isLoading'
              /\ \E t \in Slots :
                    /\ InFlight' = InFlight \cup {t}
                    /\ t \notin InFlight
                    /\ turn'[t].pc = "awaitFetch"
                    /\ turn'[t].question = after[n].content
                    /\ turn'[t].sent = <<>>
                    /\ \A u \in Slots \ {t} : turn'[u] = turn[u]]_vars

\* A question asked in a conversation the history load delivered: it is
\* appended behind the server's two messages.
C22_Witness ==
    /\ isLoading
    /\ error = {}
    /\ streamingMessage = <<>>
    /\ \E t \in Slots : turn[t].pc = "awaitFetch"
    /\ Len(renderedMessages) = 3
    /\ ~renderedMessages[1].message_id.temp
    /\ renderedMessages[2].role = "assistant"
    /\ renderedMessages[3] = Message(TempId(1), "user", <<"q">>, {})

(* C23: an error frame does not make askQuestionStreaming reject.  The      *)
(* error thrown for the frame is caught and logged inside the loop: with    *)
(* the error frame read, the call is still reading or has returned          *)
(* normally (the history fetch is issued), one console.error was made and   *)
(* no error has reached the hook.                                           *)
C23_ErrorFrameIsCaughtAndLogged ==
    \A t \in Slots :
        /\ turn[t].pc \in {"free", "awaitFetch", "reading", "awaitHistory"}
        /\ (Drained(t) /\ HasError(turn[t].sent)) =>
               /\ turn[t].logged = 1
               /\ error = {}
               /\ isLoading

\* The call returned normally after an error frame: the history fetch is on.
C23_Witness ==
    \E t \in Slots :
        /\ turn[t].pc = "awaitHistory"
        /\ turn[t].sent = << Ev("content", <<"a">>, {}), Ev("error", <<"x">>, {}) >>
        /\ turn[t].logged = 1
        /\ error = {}

----------------------------------------------------------------------------
(* C26: a failed history load.  loadHistory does not throw: the step that   *)
(* settles the load either puts the fetched history in chatHistory, or, the *)
(* fetch having failed, leaves chatHistory, error, isLoading and the live   *)
(* buffer (and the relay value) as they were.                               *)
C26_LoadHistoryFailureChangesNothing ==
    [][(loadPc = "pending" /\ loadPc' = "done") =>
          \/ /\ chatHistory' = ServerHistory
             /\ UNCHANGED <<isLoading, error, streamingMessage, lastSuggestedTimestamp>>
          \/ UNCHANGED hookState]_vars

\* The load of a file that has a stored conversation failed: nothing is shown,
\* no error is surfaced.
C26_Witness ==
    /\ loadPc = "done"
    /\ server.chat_id = AssignedChatId
    /\ turnsStarted = 0
    /\ chatHistory = NullHistory
    /\ error = {}
    /\ ~isLoading

(* C28: done triggers reconciliation.  Once the done frame has been         *)
(* processed the history fetch is issued, whether or not the server closes  *)
(* the response or sends anything more: no state has the done frame         *)
(* processed and the turn still in the read loop.                           *)
C28_DoneTriggersReconciliation ==
    \A t \in Slots :
        (Active(t) /\ \E i \in 1..Len(turn[t].calls) : turn[t].calls[i].fn = "onComplete") =>
            turn[t].pc = "awaitHistory"

(* C29: a history load that resolves while a turn is in flight does not     *)
(* remove the optimistic message: from the accepted submit to the end of    *)
(* the turn the user's question is in chatHistory.messages.                 *)
C29_LoadKeepsOptimisticMessage ==
    \A t \in Slots : Active(t) => HasUserMessage(chatHistory, turn[t].question)

----------------------------------------------------------------------------
(* C24: every accepted question returns the conversation to Idle.  When the *)
(* request settles, the body ends or the read fails and the history fetch   *)
(* settles, a turn in flight is followed by isLoading = false (after a      *)
(* success, an error frame, a transport failure or a failed history fetch   *)
(* alike), and isLoading is true exactly while a turn is in flight.         *)
C24_TurnReturnsToIdle ==
    /\ [](isLoading <=> \E t \in Slots : Active(t))
    /\ (\E t \in Slots : Active(t)) ~> ~isLoading

\* Idle again after a second turn whose history fetch failed.
C24_Witness ==
    /\ ~isLoading
    /\ turnsStarted = 2
    /\ error = {HistoryError}
    /\ streamingMessage = <<>>
    /\ \A t \in Slots : ~Active(t)

----------------------------------------------------------------------------
(* C30: a final line of the body that no newline ends is dropped, never     *)
(* parsed.  When the stream has ended after such a line, the calls made,    *)
(* the suggested_timestamp returned, the live buffer and the lines logged   *)
(* are those of the lines before it: a done frame gives no onComplete and   *)
(* no timestamp, a content frame no text, an error frame no error.          *)
C30_UnterminatedFinalLineIsDropped ==
    \A t \in Slots :
        (turn[t].pc = "awaitHistory" /\ BodyEnded(turn[t].sent)) =>
            LET before == SubSeq(turn[t].sent, 1, Len(turn[t].sent) - 1)
                last == turn[t].sent[Len(turn[t].sent)]
                whole == Unsplit(EncodeAll(before))
            IN  /\ turn[t].calls = whole.t.calls
                /\ turn[t].suggestedTimestamp = whole.t.suggestedTimestamp
                /\ turn[t].suggestedTs = whole.t.suggestedTimestamp
                /\ turn[t].fullAnswer = whole.t.fullAnswer
                /\ turn[t].logged = whole.t.logged
                /\ streamingMessage = whole.streamingMessage
                /\ lastSuggestedTimestamp = whole.lastSuggestedTimestamp
                /\ error = {}
                /\ turn[t].buffer = FrameLine(last.frame, last.text, last.ts)

\* The stream ended after a content frame and a done frame with a timestamp
\* whose line was not ended: one onChunk, no onComplete, no timestamp.
C30_Witness ==
    \E t \in Slots :
        /\ turn[t].pc = "awaitHistory"
        /\ turn[t].sent = << Ev("content", <<"a">>, {}),
                             Unterminated(Ev("done", <<>>, {5})) >>
        /\ turn[t].calls = << Call("onChunk", <<"a">>, {}) >>
        /\ lastSuggestedTimestamp = {}
        /\ turn[t].buffer = DataPrefix \o <<"{", "d", "5", "}">>

----------------------------------------------------------------------------
(* C27: handleSubmit calls askQuestion once, with the typed question, only  *)
(* when the question is not blank after trimming and isLoading is false:    *)
(* a step that starts a turn starts exactly one, for the text of the input, *)
(* from such a state, and clears the input.  A submit the guard turns away  *)
(* starts no turn and leaves the input and the conversation as they were.   *)
C27_SubmitGuard ==
    [][ /\ (turnsStarted' # turnsStarted) =>
              /\ trim(question) # <<>>
              /\ ~isLoading
              /\ turnsStarted' = turnsStarted + 1
              /\ \E t \in Slots :
                    /\ turn[t].pc = "free"
                    /\ turn'[t].pc = "awaitFetch"
                    /\ turn'[t].question = question
                    /\ \A u \in Slots \ {t} : turn'[u] = turn[u]
              /\ question' = <<>>
        /\ (submitIgnored' # submitIgnored) =>
              /\ (trim(question) = <<>> \/ isLoading)
              /\ UNCHANGED <<question, chatVars>> ]_vars

\* A question typed while the first one was in flight was submitted and
\* turned away: one turn started, the typed text still in the input.
C27_Witness ==
    /\ submitIgnored
    /\ isLoading
    /\ turnsStarted = 1
    /\ question = <<"q">>
    /\ \E t \in Slots : turn[t].pc = "reading" /\ turn[t].question = <<"q">>

----------------------------------------------------------------------------
(* C25: conversations of different files are independent.  Once the fileId *)
(* given to useChat is the other file's, no step of a turn or history load  *)
(* of the first file changes the chatHistory, the live buffer, the error or *)
(* the relay value presented.                                              *)
C25_FilesAreIndependent ==
    [][ ( /\ shownFileId = otherFileId
          /\ shownFileId' = otherFileId
          /\ loadPcOther' = loadPcOther )
        => UNCHANGED <<chatHistory, streamingMessage, error, lastSuggestedTimestamp>> ]_vars

----------------------------------------------------------------------------
(* C31: done is terminal within a response.  Once the service has made its *)
(* onComplete call for a response, no later read of that response adds a    *)
(* call, and the live buffer and the captured suggestion stay as they are.  *)
C31_DoneIsTerminal ==
    [][ \A t \in Slots :
          ( /\ turn[t].pc = "reading"
            /\ turn'[t].pc = "reading"
            /\ \E i \in 1..Len(turn[t].calls) : turn[t].calls[i].fn = "onComplete" )
          => /\ turn'[t].calls = turn[t].calls
             /\ streamingMessage' = streamingMessage
             /\ turn'[t].suggestedTs = turn[t].suggestedTs
             /\ lastSuggestedTimestamp' = lastSuggestedTimestamp ]_vars

----------------------------------------------------------------------------
(* C32: while the conversation is idle (isLoading = false) the live buffer  *)
(* streamingMessage is empty, whatever submits, frames, failures and        *)
(* history loads came before.                                               *)
C32_IdleBufferIsEmpty == ~isLoading => streamingMessage = <<>>

\* Idle after a turn whose read failed once frames had been written.
C32_Witness ==
    /\ ~isLoading
    /\ streamingMessage = <<>>
    /\ turnsStarted = 1
    /\ framesSent = 2
    /\ error = {ReadError}

----------------------------------------------------------------------------
\* lastSuggestedTimestamp is cleared by an accepted question and, while the
\* turn is in flight and after it has succeeded, is absent or the
\* suggested_timestamp of the turn's done frame; it changes in no step taken
\* while no turn is in flight.
RelayBelongsToTurn ==
    /\ (turnsStarted' # turnsStarted) => lastSuggestedTimestamp' = {}
    /\ \A t \in Slots :
          (Active(t) /\ turn'[t].pc # "free") =>
              lastSuggestedTimestamp' \in {{}, DoneTs(turn'[t].sent)}
    /\ \A t \in Slots :
          (Active(t) /\ turn'[t].pc = "free" /\ error' = {}) =>
              lastSuggestedTimestamp' = DoneTs(turn[t].sent)
    /\ ((\A t \in Slots : ~Active(t)) /\ turnsStarted' = turnsStarted) =>
          UNCHANGED lastSuggestedTimestamp

\* A turn that ends with an error leaves lastSuggestedTimestamp absent.
FailedTurnLeavesNoRelay ==
    \A t \in Slots :
        (Active(t) /\ turn'[t].pc = "free" /\ error' # {}) =>
            lastSuggestedTimestamp' = {}

(* C33: the relay value never outlives its turn.  lastSuggestedTimestamp is *)
(* cleared when a question is accepted, later it is absent or the           *)
(* suggested_timestamp of the done frame of the most recent turn, and a     *)
(* turn that fails, or whose done frame carries none, leaves it absent.     *)
C33_RelayNeverOutlivesTurn ==
    [][RelayBelongsToTurn /\ FailedTurnLeavesNoRelay]_vars

----------------------------------------------------------------------------
UserMessagesCarryNoHint ==
    chatHistory # NullHistory =>
        \A i \in 1..Len(chatHistory.messages) :
            chatHistory.messages[i].role = "user" =>
                chatHistory.messages[i].suggested_timestamp = {}

(* C34: no user message ever gets a suggested_timestamp from the client.    *)
(* In every state the user messages of chatHistory carry none, and the      *)
(* reconciliation changes the fetched messages at most in the last one, and *)
(* only when that one is the assistant's: with a user message last the      *)
(* captured hint is attached to no message.                                 *)
C34_HintOnlyOnAssistantMessage ==
    [][ /\ UserMessagesCarryNoHint'
        /\ \A t \in Slots :
              (EndsFromHistory(t) /\ error' = {}) =>
                  LET fetched == ServerHistory.messages
                      msgs == chatHistory'.messages
                      n == Len(fetched)
                  IN  /\ Len(msgs) = n
                      /\ \A i \in 1..n :
                            (i < n \/ fetched[n].role # "assistant") => msgs[i] = fetched[i] ]_vars

\* The history fetched at the end of a turn did not hold the answer yet: its
\* last message is the user's question, the hint of the done frame is in the
\* relay and on no message.
C34_Witness ==
    /\ ~isLoading
    /\ error = {}
    /\ lastSuggestedTimestamp = {5}
    /\ chatHistory # NullHistory
    /\ loadPc = "done"
    /\ Len(chatHistory.messages) > 0
    /\ chatHistory.messages[Len(chatHistory.messages)].role = "user"
    /\ \A i \in 1..Len(chatHistory.messages) :
          chatHistory.messages[i].suggested_timestamp = {}

----------------------------------------------------------------------------
\* The button of the last message rendered ({}: none).
lastAffordance ==
    LET msgs == renderedMessages
    IN  IF msgs = <<>> THEN {} ELSE affordance(msgs[Len(msgs)], TRUE)

(* C35: a done frame with suggested_timestamp = 0 carries a hint like any   *)
(* other.  When it has been read, the service holds 0 and has passed 0 to   *)
(* onComplete, the relay is 0, and the call returns 0; the reconciliation   *)
(* that follows puts 0 on the last message when it is the assistant's, and  *)
(* the renderer offers "Play from" 0 on it.                                 *)
C35_ZeroIsAHint ==
    [][\A t \in Slots :
          /\ (Drained(t)' /\ DoneTs(turn'[t].sent) = {0}) =>
                /\ turn'[t].suggestedTimestamp = {0}
                /\ \E i \in 1..Len(turn'[t].calls) :
                      turn'[t].calls[i] = Call("onComplete", <<>>, {0})
                /\ lastSuggestedTimestamp' = {0}
                /\ turn'[t].pc = "awaitHistory" => turn'[t].suggestedTs = {0}
          /\ (EndsFromHistory(t) /\ error' = {} /\ DoneTs(turn[t].sent) = {0}) =>
                LET msgs == chatHistory'.messages
                    n == Len(msgs)
                IN  /\ lastSuggestedTimestamp' = {0}
                    /\ msgs[n].role = "assistant" =>
                          /\ msgs[n].suggested_timestamp = {0}
                          /\ lastAffordance' = {0} ]_vars

\* The answer of a turn whose done frame carried 0 is shown with its button.
C35_Witness ==
    LET msgs == renderedMessages
        n == Len(msgs)
    IN  /\ ~isLoading
        /\ error = {}
        /\ lastSuggestedTimestamp = {0}
        /\ n > 0
        /\ msgs[n].role = "assistant"
        /\ msgs[n].suggested_timestamp = {0}
        /\ affordance(msgs[n], TRUE) = {0}

----------------------------------------------------------------------------
\* What holds of an invocation of pollFileStatus in every state.
PollIsBounded(p) ==
    /\ polls[p].fetches <= maxAttempts + 1
    /\ polls[p].attempts <= maxAttempts
    /\ polls[p].pc = "waiting" =>
          /\ polls[p].last \in {"pending", "processing"}
          /\ polls[p].fetches = polls[p].attempts
    /\ polls[p].pc \in {"fetching", "timestamps", "stopped"} =>
          polls[p].fetches = polls[p].attempts + 1
    /\ polls[p].last \in {"completed", "failed", "rejected"} =>
          polls[p].pc \in {"timestamps", "stopped"}
    /\ polls[p].outcome = "timeout" =>
          /\ polls[p].pc = "stopped"
          /\ polls[p].attempts = maxAttempts
          /\ polls[p].fetches = maxAttempts + 1
          /\ polls[p].last \in {"pending", "processing"}

\* Once it has stopped an invocation does nothing more, and after a completed
\* status it fetches no status again.
PollStaysStopped(p) ==
    /\ polls[p].pc = "stopped" => polls'[p] = polls[p]
    /\ polls[p].pc = "timestamps" =>
          polls'[p] \in {polls[p], [polls[p] EXCEPT !.pc = "stopped"]}

(* C37: pollFileStatus terminates.  An invocation makes at most 61 status   *)
(* fetches, stops at the first completed or failed status and at the first  *)
(* rejected fetch, reports the timeout when 60 retries are used up, does    *)
(* nothing once it has stopped, and, when its fetches settle and its timers *)
(* fire, does stop.                                                         *)
C37_PollTerminates ==
    /\ [](\A p \in PollSlots : PollIsBounded(p))
    /\ [][\A p \in PollSlots : PollStaysStopped(p)]_vars
    /\ <>[](\A p \in PollSlots : polls[p].pc \in {"free", "stopped"})

\* The server never finished: the timeout after the 61st status fetch.
C37_Witness ==
    \E p \in PollSlots :
        /\ polls[p].pc = "stopped"
        /\ polls[p].outcome = "timeout"
        /\ polls[p].fetches = 61
        /\ polls[p].attempts = 60

----------------------------------------------------------------------------
(* C36: stale file responses are never applied.  A step of a loadFileDetails *)
(* call or of a pollFileStatus invocation that was started for a file,      *)
(* taken when another file is the selected one, leaves currentFile and       *)
(* timestamps as they are.                                                   *)
C36_StaleResponsesAreDropped ==
    [][ /\ \A l \in LoadSlots :
              ( /\ loads[l].pc # "free"
                /\ loads'[l] # loads[l]
                /\ selectedFileId \notin {{}, {loads[l].fileId}} )
              => UNCHANGED <<currentFile, timestamps>>
        /\ \A p \in PollSlots :
              ( /\ polls[p].pc \notin {"free", "stopped"}
                /\ polls'[p] # polls[p]
                /\ selectedFileId \notin {{}, {polls[p].fileId}} )
              => UNCHANGED <<currentFile, timestamps>> ]_vars

====
